---- MODULE Spec2Model ----
(***************************************************************************)
(* Model of the Bitcoin dashboard's future-price projection                *)
(* (src/forecasting.py, src/config.py).                                    *)
(*                                                                         *)
(* Prices are whole US dollars.  numpy's float64 arithmetic is modelled by *)
(* integer fixed-point arithmetic that computes what the code computes and *)
(* rounds where the floating-point operation rounds:                       *)
(*   - a natural logarithm is an integer number of 1/10000 nats (Ln),      *)
(*   - np.exp yields a price in whole dollars (Exp),                       *)
(*   - np.sin yields thousandths (Sin),                                    *)
(*   - the volatility multiplier is in thousandths (1000 = x1.0).          *)
(* Ln and Exp are computed bit by bit (binary logarithm by repeated        *)
(* squaring of a 15-bit mantissa, binary exponential by a product of       *)
(* tabulated roots of two), so Exp(Ln(x)) is x only up to rounding, as     *)
(* np.exp(np.log(x)) is.                                                   *)
(***************************************************************************)
EXTENDS Integers, Sequences, FiniteSets, TLC

(***************************************************************************)
(* Configuration: src/config.py                                            *)
(***************************************************************************)
MAX_YEAR == 2050
FORECAST_BASE_YEAR == 2024
MAX_THEORETICAL_BTC_PRICE == 22000000
MAX_MONTHLY_POINTS == 120
QUARTERLY_SAMPLE_MONTHS == 3
FORECAST_ANCHORS == (2030 :> 800000) @@ (2040 :> 2500000) @@ (2050 :> 6000000)

\* src/historical_prices.py: the reference prices in the order of the dictionary,
\* each entry <<year, month, price in cents>>
HISTORICAL_PRICES ==
    <<<<2010, 7, 8>>, <<2010, 11, 25>>, <<2011, 1, 30>>, <<2011, 6, 1500>>,
       <<2011, 12, 400>>, <<2012, 1, 500>>, <<2012, 6, 650>>, <<2012, 12, 1300>>,
       <<2013, 1, 1350>>, <<2013, 4, 12000>>, <<2013, 6, 10000>>, <<2013, 11, 90000>>,
       <<2013, 12, 75000>>, <<2014, 1, 80000>>, <<2014, 6, 60000>>, <<2014, 12, 32000>>,
       <<2015, 1, 28000>>, <<2015, 6, 25000>>, <<2015, 12, 43000>>, <<2016, 1, 43000>>,
       <<2016, 6, 65000>>, <<2016, 12, 90000>>, <<2017, 1, 100000>>, <<2017, 3, 120000>>,
       <<2017, 6, 250000>>, <<2017, 9, 400000>>, <<2017, 12, 1400000>>, <<2018, 1, 1100000>>,
       <<2018, 6, 650000>>, <<2018, 12, 380000>>, <<2019, 1, 360000>>, <<2019, 3, 400000>>,
       <<2019, 6, 1000000>>, <<2019, 9, 850000>>, <<2019, 12, 720000>>, <<2020, 1, 720000>>,
       <<2020, 3, 640000>>, <<2020, 6, 930000>>, <<2020, 9, 1080000>>, <<2020, 12, 1900000>>,
       <<2021, 1, 3200000>>, <<2021, 3, 5500000>>, <<2021, 6, 3500000>>, <<2021, 9, 4300000>>,
       <<2021, 11, 6500000>>, <<2021, 12, 5000000>>, <<2022, 1, 3800000>>, <<2022, 3, 4200000>>,
       <<2022, 6, 2000000>>, <<2022, 9, 1900000>>, <<2022, 12, 1650000>>, <<2023, 1, 1700000>>,
       <<2023, 3, 2300000>>, <<2023, 6, 2700000>>, <<2023, 9, 2600000>>, <<2023, 12, 4200000>>,
       <<2024, 1, 4300000>>, <<2024, 3, 6700000>>, <<2024, 6, 6100000>>, <<2024, 9, 6300000>>,
       <<2024, 10, 6700000>>, <<2024, 11, 7200000>>, <<2024, 12, 9500000>>, <<2025, 1, 10500000>>,
       <<2025, 2, 9800000>>, <<2025, 3, 11500000>>, <<2025, 4, 12000000>>, <<2025, 5, 12500000>>,
       <<2025, 6, 13000000>>, <<2025, 7, 13500000>>, <<2025, 8, 14000000>>, <<2025, 9, 14500000>>,
       <<2025, 10, 15000000>> >>

(***************************************************************************)
(* Fixed-point model of numpy's float arithmetic                           *)
(***************************************************************************)
\* a / b rounded to the nearest integer (b > 0), as a float division rounds
DivRound(a, b) == (2 * a + b) \div (2 * b)

Abs(x) == IF x < 0 THEN -x ELSE x

Min(a, b) == IF a <= b THEN a ELSE b

Max(a, b) == IF a >= b THEN a ELSE b

\* floor(log2(x)) for x >= 1
RECURSIVE FloorLog2(_)
FloorLog2(x) == IF x < 2 THEN 0 ELSE 1 + FloorLog2(x \div 2)

\* x scaled to a mantissa in [2^14, 2^15): x ~ Mantissa(x) * 2^(FloorLog2(x) - 14)
Mantissa(x) ==
    LET n == FloorLog2(x)
        m == IF n <= 14 THEN x * 2^(14 - n)
                        ELSE (x + 2^(n - 15)) \div 2^(n - 14)
    IN  Min(m, 2^15 - 1)

\* the 12 fractional bits of log2(m / 2^14), bit i downwards, by repeated squaring
RECURSIVE LogBits(_, _)
LogBits(m, i) ==
    IF i > 12 THEN 0
    ELSE LET sq == (m * m + 2^13) \div 2^14
         IN  IF sq >= 2^15 THEN 2^(12 - i) + LogBits((sq + 1) \div 2, i + 1)
                           ELSE LogBits(sq, i + 1)

\* log2(x) in units of 1/4096, x >= 1
Log2Fix(x) == FloorLog2(x) * 2^12 + LogBits(Mantissa(x), 1)

\* np.log(x) in units of 1/10000 (ln 2 = 0.6931), x >= 1
Ln(x) == (Log2Fix(x) * 6931 + 2^11) \div 2^12

\* 2^(2^-i) * 2^14 for i = 1..12
Exp2Tab == <<23170, 19484, 17867, 17109, 16743, 16562,
             16473, 16428, 16406, 16395, 16390, 16387>>

\* 2^(f / 4096) * 2^14 for 0 <= f < 4096: the product of the roots of two of f's bits
RECURSIVE ExpBits(_, _, _)
ExpBits(f, i, m) ==
    IF i > 12 THEN m
    ELSE IF (f \div 2^(12 - i)) % 2 = 1
         THEN ExpBits(f, i + 1, (m * Exp2Tab[i] + 2^13) \div 2^14)
         ELSE ExpBits(f, i + 1, m)

\* 2^(z / 4096) rounded to an integer
Exp2Fix(z) ==
    IF z < 0 THEN 0
    ELSE LET n == z \div 2^12
             m == ExpBits(z % 2^12, 1, 2^14)
         IN  IF n >= 14 THEN m * 2^(n - 14)
                        ELSE (m + 2^(13 - n)) \div 2^(14 - n)

\* np.exp(y) in whole dollars, y in units of 1/10000
Exp(y) == Exp2Fix((y * 2^12 + 3465) \div 6931)

\* np.sin(a / 100) in thousandths, for an angle of a hundredths of a radian (a >= 0):
\* the phase is a/100 / (2 pi) with pi = 355/113, the sine of the half period
\* is Bhaskara's approximation 16 q (H - q) / (5 H^2 - 4 q (H - q)).
Sin(a) ==
    LET p == (a * 113) % 71000
        q == IF p < 35500 THEN p ELSE p - 35500
        u == (q * (35500 - q)) \div 3550
        s == (16000 * u) \div (1775000 - 4 * u)
    IN  IF p < 35500 THEN s ELSE -s

\* price * factor / 1000 for a factor in thousandths, without overflow
Scale(price, factor) ==
    (price \div 1000) * factor + ((price % 1000) * factor) \div 1000

(***************************************************************************)
(* Bounds of the model                                                     *)
(***************************************************************************)
\* the wall clock runs over FirstNowYear .. FirstNowYear + NowYearSpan
NowYearSpan == 2

\* target years run up to MAX_YEAR + YearsBeyond
YearsBeyond == 16

\* target months are 1 .. 12 + BadMonths (the months above 12 are invalid inputs)
BadMonths == 1

FirstNowYear == FORECAST_BASE_YEAR + 4

\* a year in which every configured anchor year has passed
LateYear == MAX_YEAR + 1

ClockYears == (FirstNowYear .. (FirstNowYear + NowYearSpan)) \cup {LateYear}

\* a first, a middle and a last month of the year
ClockMonths == {1, 6, 12}

\* offset 0: the first instant of the month; offset 1: any later instant of it
Clock == [year : ClockYears, month : ClockMonths, offset : {0, 1}]

TargetYears == FirstNowYear .. (MAX_YEAR + YearsBeyond)

TargetMonths == 1 .. (12 + BadMonths)

\* a price of src/test_new_forecast.py, one above the first anchor, one above the cap
CurrentPrices == {60000, 1000000, 100000000}

\* anchor tables config.py can hold: the shipped one, two-point ones with the
\* shipped and with a later first anchor, and one whose prices are not increasing
AnchorConfigs ==
    { FORECAST_ANCHORS,
      (2030 :> 800000) @@ (2040 :> 2500000),
      (2032 :> 1000000) @@ (2040 :> 2500000),
      (2030 :> 800000) @@ (2040 :> 2500000) @@ (2050 :> 1000000) }

\* anchor tables with fewer than two anchors: an empty one and a single point
DegenerateConfigs ==
    { [y \in {} |-> 0],
      [y \in {2030} |-> 800000] }

\* current prices that are not positive
InvalidPrices == {0, -100}

\* Python's None, and a price as get_current_btc_price() returns it
None == [kind |-> "None"]

Usd(p) == [kind |-> "usd", usd |-> p]

\* a price of the reference table, in cents
Cents(c) == [kind |-> "usd", cents |-> c]

\* the years asked of the reference table: from before its first entry
\* (2010) to after its last (2025)
HistoryYears == 2009 .. 2026

\* the base prices add_bitcoin_volatility is called with
BasePrices == {60000, MAX_THEORETICAL_BTC_PRICE}

NoCall == [op |-> "none"]

\* the callers that invoke the projection at the same time
Callers == {"c1", "c2"}

\* the target years of concurrent calls: one for each branch of the interpolation
ConcurrentTargets == {FirstNowYear + 1, 2030, 2035, MAX_YEAR + 5}

\* a caller that is not inside a call
Idle == [pc |-> "idle"]

\* no dictionary of get_projection_info is held by a caller
NoInfo == [held |-> FALSE]

\* the price API answers with price points; closest is the price of the point
\* nearest to the first day of the month asked for
Delivers == [kind |-> "prices", closest |-> 30000]

\* the answers of the price API to a request for historical data: price points,
\* no answer in time, a network or HTTP error, a body that is not JSON, and a
\* body without price points
ApiAnswers ==
    { Delivers, [kind |-> "timeout"], [kind |-> "error"], [kind |-> "unparsable"],
      [kind |-> "empty"] }

\* the years get_price_for_date is asked for: in the reference table, at its
\* end, around the clock, and far ahead
DateYears == {2011, 2026} \cup (FirstNowYear .. (FirstNowYear + 1)) \cup {2035}

\* the ranges <<start_year, start_month, end_year, end_month>> a chart is drawn
\* for: a few past months, months around the clock, 120 months, 121 and 122 months,
\* and a start after the end
ChartRanges ==
    { <<2025, 11, 2026, 2>>, <<2027, 11, 2029, 2>>, <<2019, 1, 2028, 12>>,
      <<2018, 12, 2028, 12>>, <<2018, 11, 2028, 12>>, <<2029, 3, 2028, 1>> }

\* the clock in the middle of a year
MidYearClock == {c \in Clock : c.year <= FirstNowYear + 1 /\ c.month = 6 /\ c.offset = 1}

\* the clock of the first two years
EarlyClock == {c \in Clock : c.year <= FirstNowYear + 1}

\* prepare_chart_data is not running
NoChart == [pc |-> "idle"]

(***************************************************************************)
(* State                                                                   *)
(***************************************************************************)
VARIABLES
    now,      \* datetime.now(): [year, month, offset]
    btc,      \* what get_current_btc_price() returns: a price or None
    anchors,  \* the anchor table (config.FORECAST_ANCHORS), set at startup
    ret,      \* the call that has just returned, with what it read and returned
    memo,     \* an earlier call kept by the caller for comparison
    calls,    \* for each concurrent caller, the call it is in: its locals and result
    info,     \* the 'anchor_points' of a dictionary get_projection_info returned
    api,      \* how the price API answers a request for historical data
    chart     \* prepare_chart_data: its locals while it runs, its lists

vars == <<now, btc, anchors, ret, memo, calls, info, api, chart>>

(***************************************************************************)
(* src/forecasting.py: interpolate_price_between_anchors                   *)
(***************************************************************************)
\* sorted(FORECAST_ANCHORS.keys())
RECURSIVE SortedSeq(_)
SortedSeq(S) ==
    IF S = {} THEN <<>>
    ELSE LET m == CHOOSE x \in S : \A y \in S : x <= y
         IN  <<m>> \o SortedSeq(S \ {m})

\* variant: the anchor years are taken in descending order
anchor_years_descending(table) ==
    LET years == SortedSeq(DOMAIN table)
    IN  [i \in 1 .. Len(years) |-> years[Len(years) + 1 - i]]

anchor_years(table) == SortedSeq(DOMAIN table)

\* np.log(a / b)
LnRatio(a, b) == Ln(a) - Ln(b)

\* price * np.exp(g); np.exp(0) is exactly 1
MulExp(price, g) == IF g = 0 THEN price ELSE Exp(Ln(price) + g)

\* min(projected, MAX_THEORETICAL_BTC_PRICE)
Capped(projected) == Min(projected, MAX_THEORETICAL_BTC_PRICE)

Value(v, b) == [kind |-> "value", value |-> v, branch |-> b]

\* a value computed with a growth rate or a position: d is the divisor of that
\* division
Projected(v, b, d) == [kind |-> "value", value |-> v, branch |-> b, divisor |-> d]

Raise(e, b) == [kind |-> "raise", value |-> e, branch |-> b]

\* the float nan: np.log of a negative ratio, which min() hands through
NaN(b) == [kind |-> "nan", branch |-> b]

\* variant: CASE 1 clamps the current price like the other branches
PastCapped(current_price) == Value(Capped(current_price), "past")

\* CASE 1: the target year is at or before the current year
PastOrPresent(current_price) == Value(current_price, "past")

\* variant: CASE 2 aims at the first anchor's price, as CASE 3 does
ExactAnchorFirst(table, current_year, current_price, target_year) ==
    LET years_to_target == target_year - current_year
        growth_rate == DivRound(LnRatio(table[anchor_years(table)[1]], current_price),
                                years_to_target)
        projected == MulExp(current_price, growth_rate * years_to_target)
    IN  Projected(Capped(projected), "anchor", years_to_target)

\* CASE 2: the target year is an anchor year
ExactAnchor(table, current_year, current_price, target_year) ==
    LET years_to_target == target_year - current_year
        growth_rate == DivRound(LnRatio(table[target_year], current_price),
                                years_to_target)
        projected == MulExp(current_price, growth_rate * years_to_target)
    IN  IF current_price = 0 THEN Raise("ZeroDivisionError", "anchor")
        ELSE IF current_price < 0 THEN NaN("anchor")
        ELSE Projected(Capped(projected), "anchor", years_to_target)

\* CASE 3: the target year is before the first anchor
BeforeFirst(table, current_year, current_price, target_year) ==
    LET first_anchor == anchor_years(table)[1]
        years_to_anchor == first_anchor - current_year
        years_to_target == target_year - current_year
        growth_rate == DivRound(LnRatio(table[first_anchor], current_price),
                                years_to_anchor)
        projected == MulExp(current_price, growth_rate * years_to_target)
    IN  IF current_price = 0 THEN Raise("ZeroDivisionError", "before_first")
        ELSE IF current_price < 0 THEN NaN("before_first")
        ELSE Projected(Capped(projected), "before_first", years_to_anchor)

\* variant: CASE 4 grows at the rate of the first two anchors
AfterLastAtFirstRate(table, target_year) ==
    LET years == anchor_years(table)
        last_anchor == years[Len(years)]
        years_between == years[2] - years[1]
        growth_rate == DivRound(LnRatio(table[years[2]], table[years[1]]),
                                years_between)
        years_beyond == target_year - last_anchor
        projected == MulExp(table[last_anchor], growth_rate * years_beyond)
    IN  Projected(Capped(projected), "after_last", years_between)

\* CASE 4: the target year is after the last anchor
AfterLast(table, target_year) ==
    LET years == anchor_years(table)
        last_anchor == years[Len(years)]
        second_last_anchor == years[Len(years) - 1]
        years_between == last_anchor - second_last_anchor
        growth_rate == DivRound(LnRatio(table[last_anchor], table[second_last_anchor]),
                                years_between)
        years_beyond == target_year - last_anchor
        projected == MulExp(table[last_anchor], growth_rate * years_beyond)
    IN  Projected(Capped(projected), "after_last", years_between)

\* variant: CASE 5 measures the position from the upper anchor
BetweenFromUpper(table, current_price, target_year) ==
    LET years == anchor_years(table)
        hits == {i \in 1 .. (Len(years) - 1) :
                    years[i] < target_year /\ target_year < years[i + 1]}
        first == CHOOSE k \in hits : \A j \in hits : k <= j
    IN  IF hits = {} \/ years[first] = 0 \/ years[first + 1] = 0
        THEN Value(current_price, "fallback")
        ELSE LET lower_anchor == years[first]
                 upper_anchor == years[first + 1]
                 total_years == upper_anchor - lower_anchor
                 years_from_lower == upper_anchor - target_year
                 log_lower == Ln(table[lower_anchor])
                 log_upper == Ln(table[upper_anchor])
                 log_interpolated ==
                     log_lower + DivRound(years_from_lower * (log_upper - log_lower),
                                          total_years)
             IN  Projected(Capped(Exp(log_interpolated)), "between", total_years)

\* variant: CASE 5 interpolates the prices, not their logarithms
BetweenLinear(table, current_price, target_year) ==
    LET years == anchor_years(table)
        hits == {i \in 1 .. (Len(years) - 1) :
                    years[i] < target_year /\ target_year < years[i + 1]}
        first == CHOOSE k \in hits : \A j \in hits : k <= j
    IN  IF hits = {} \/ years[first] = 0 \/ years[first + 1] = 0
        THEN Value(current_price, "fallback")
        ELSE LET lower_anchor == years[first]
                 upper_anchor == years[first + 1]
                 total_years == upper_anchor - lower_anchor
                 years_from_lower == target_year - lower_anchor
                 interpolated ==
                     table[lower_anchor]
                       + years_from_lower
                           * DivRound(table[upper_anchor] - table[lower_anchor],
                                      total_years)
             IN  Projected(Capped(interpolated), "between", total_years)

\* variant: the interpolation starts from the current price
BetweenFromCurrent(table, current_price, target_year) ==
    LET years == anchor_years(table)
        hits == {i \in 1 .. (Len(years) - 1) :
                    years[i] < target_year /\ target_year < years[i + 1]}
        first == CHOOSE k \in hits : \A j \in hits : k <= j
    IN  IF hits = {} \/ years[first] = 0 \/ years[first + 1] = 0
        THEN Value(current_price, "fallback")
        ELSE LET lower_anchor == years[first]
                 upper_anchor == years[first + 1]
                 total_years == upper_anchor - lower_anchor
                 years_from_lower == target_year - lower_anchor
                 log_lower == Ln(current_price)
                 log_upper == Ln(table[upper_anchor])
                 log_interpolated ==
                     log_lower + DivRound(years_from_lower * (log_upper - log_lower),
                                          total_years)
             IN  Projected(Capped(Exp(log_interpolated)), "between", total_years)

\* CASE 5: the first pair of adjacent anchors that brackets the target year
Between(table, current_price, target_year) ==
    LET years == anchor_years(table)
        hits == {i \in 1 .. (Len(years) - 1) :
                    years[i] < target_year /\ target_year < years[i + 1]}
        first == CHOOSE k \in hits : \A j \in hits : k <= j
    IN  IF hits = {} \/ years[first] = 0 \/ years[first + 1] = 0
        THEN Value(current_price, "fallback")
        ELSE LET lower_anchor == years[first]
                 upper_anchor == years[first + 1]
                 total_years == upper_anchor - lower_anchor
                 years_from_lower == target_year - lower_anchor
                 log_lower == Ln(table[lower_anchor])
                 log_upper == Ln(table[upper_anchor])
                 log_interpolated ==
                     log_lower + DivRound(years_from_lower * (log_upper - log_lower),
                                          total_years)
             IN  Projected(Capped(Exp(log_interpolated)), "between", total_years)

\* variant: CASE 3 leaves the year before the first anchor to the later cases
InterpolateShortOfFirst(table, current_year, current_price, target_year) ==
    LET years == anchor_years(table)
    IN  IF target_year <= current_year
        THEN PastOrPresent(current_price)
        ELSE IF target_year \in DOMAIN table
        THEN ExactAnchor(table, current_year, current_price, target_year)
        ELSE IF Len(years) = 0
        THEN Raise("IndexError", "before_first")
        ELSE IF target_year < years[1] - 1
        THEN BeforeFirst(table, current_year, current_price, target_year)
        ELSE IF target_year > years[Len(years)]
        THEN IF Len(years) < 2
             THEN Raise("IndexError", "after_last")
             ELSE AfterLast(table, target_year)
        ELSE Between(table, current_price, target_year)

\* variant: CASE 2 is missing, an anchor year is left to the later cases
InterpolateWithoutExactAnchor(table, current_year, current_price, target_year) ==
    LET years == anchor_years(table)
    IN  IF target_year <= current_year
        THEN PastOrPresent(current_price)
        ELSE IF Len(years) = 0
        THEN Raise("IndexError", "before_first")
        ELSE IF target_year < years[1]
        THEN BeforeFirst(table, current_year, current_price, target_year)
        ELSE IF target_year > years[Len(years)]
        THEN IF Len(years) < 2
             THEN Raise("IndexError", "after_last")
             ELSE AfterLast(table, target_year)
        ELSE Between(table, current_price, target_year)

\* the function body, with datetime.now().year and the anchor table as arguments
InterpolateAt(table, current_year, current_price, target_year) ==
    LET years == anchor_years(table)
    IN  IF target_year <= current_year
        THEN PastOrPresent(current_price)
        ELSE IF target_year \in DOMAIN table
        THEN ExactAnchor(table, current_year, current_price, target_year)
        ELSE IF Len(years) = 0
        THEN Raise("IndexError", "before_first")
        ELSE IF target_year < years[1]
        THEN BeforeFirst(table, current_year, current_price, target_year)
        ELSE IF target_year > years[Len(years)]
        THEN IF Len(years) < 2
             THEN Raise("IndexError", "after_last")
             ELSE AfterLast(table, target_year)
        ELSE Between(table, current_price, target_year)

\* variant: the current year is rounded to the nearest year start
InterpolateRoundedYear(current_price, target_year) ==
    InterpolateAt(anchors, IF now.month > 6 THEN now.year + 1 ELSE now.year,
                  current_price, target_year)

\* interpolate_price_between_anchors(current_price, target_year): reads the clock
\* and the configured anchor table
interpolate_price_between_anchors(current_price, target_year) ==
    InterpolateAt(anchors, now.year, current_price, target_year)

(***************************************************************************)
(* src/forecasting.py: add_bitcoin_volatility                              *)
(***************************************************************************)
seed_value(target_year, target_month) == target_year * 100 + target_month

crash_seed(target_year, target_month) == (target_year * 17 + target_month * 7) % 100

\* variant: the three cycles have twice their amplitudes
BaseFactorDoubled(target_year, target_month) ==
    LET seed == seed_value(target_year, target_month)
        volatility_1 == DivRound(Sin(seed * 10) * 300, 1000)
        volatility_2 == DivRound(Sin(seed * 23) * 160, 1000)
        volatility_3 == DivRound(Sin(seed * 37) * 100, 1000)
        total_volatility == volatility_1 + volatility_2 + volatility_3 + 20
    IN  1000 + total_volatility

\* 1.0 + total_volatility, in thousandths: three sine cycles and the upward bias
BaseFactor(target_year, target_month) ==
    LET seed == seed_value(target_year, target_month)
        volatility_1 == DivRound(Sin(seed * 10) * 150, 1000)
        volatility_2 == DivRound(Sin(seed * 23) * 80, 1000)
        volatility_3 == DivRound(Sin(seed * 37) * 50, 1000)
        total_volatility == volatility_1 + volatility_2 + volatility_3 + 20
    IN  1000 + total_volatility

\* variant: the seeds 3 and 96 count as events too
EventFactorInclusive(target_year, target_month) ==
    LET factor == BaseFactor(target_year, target_month)
        seed == crash_seed(target_year, target_month)
    IN  IF seed <= 3 THEN DivRound(factor * 6, 10)
        ELSE IF seed >= 96 THEN DivRound(factor * 18, 10)
        ELSE factor

\* the factor after the occasional crash (x0.6) or pump (x1.8)
EventFactor(target_year, target_month) ==
    LET factor == BaseFactor(target_year, target_month)
        seed == crash_seed(target_year, target_month)
    IN  IF seed < 3 THEN DivRound(factor * 6, 10)
        ELSE IF seed > 96 THEN DivRound(factor * 18, 10)
        ELSE factor

\* variant: the factor is returned without the final bounds
Unbounded(factor) == factor

\* max(0.5, min(2.0, volatility_factor))
Bounded(factor) == Max(500, Min(2000, factor))

\* variant: the seed also depends on the base price (in millions of dollars)
VolatilityByPrice(target_year, target_month, base_price) ==
    Bounded(EventFactor(target_year + base_price \div 1000000, target_month))

add_bitcoin_volatility(target_year, target_month, base_price) ==
    Bounded(EventFactor(target_year, target_month))

(***************************************************************************)
(* src/forecasting.py: calculate_future_price                              *)
(***************************************************************************)
\* variant: years_diff <= 0, the current instant counts as past
TargetNotAfterNow(target_year, target_month) ==
    target_year * 12 + target_month <= now.year * 12 + now.month

\* variant: only a month before the current month counts as past
TargetMonthPast(target_year, target_month) ==
    target_year * 12 + target_month < now.year * 12 + now.month

\* (target_date - current_date).days / 365.25 < 0: the first instant of the
\* target month is before now
TargetInPast(target_year, target_month) ==
    LET target == target_year * 12 + target_month
        current == now.year * 12 + now.month
    IN  target < current \/ (target = current /\ now.offset > 0)

\* variant: the month's position is taken within half a year
MonthBlendPerHalfYear(jan_price, next_jan_price, target_month) ==
    LET log_jan == Ln(jan_price)
        log_next_jan == Ln(next_jan_price)
        log_target ==
            log_jan + DivRound((target_month - 1) * (log_next_jan - log_jan), 6)
    IN  Exp(log_target)

\* the month-level adjustment between the January of the target year and the next
MonthBlend(jan_price, next_jan_price, target_month) ==
    LET log_jan == Ln(jan_price)
        log_next_jan == Ln(next_jan_price)
        log_target ==
            log_jan + DivRound((target_month - 1) * (log_next_jan - log_jan), 12)
    IN  Exp(log_target)

\* variant: every month is blended, January one twelfth of the way
RefinedFromMonthZero(current_price, target_year, target_month) ==
    MonthBlend(
        interpolate_price_between_anchors(current_price, target_year).value,
        interpolate_price_between_anchors(current_price, target_year + 1).value,
        target_month + 1)

\* the price before the volatility overlay: lines 222-242
RefinedPrice(current_price, target_year, target_month) ==
    LET projected_price ==
            interpolate_price_between_anchors(current_price, target_year).value
    IN  IF target_month # 1
        THEN MonthBlend(
                 interpolate_price_between_anchors(current_price, target_year).value,
                 interpolate_price_between_anchors(current_price, target_year + 1).value,
                 target_month)
        ELSE projected_price

\* projected_price *= volatility_factor
Overlay(projected_price, volatility_factor) == Scale(projected_price, volatility_factor)

\* the result of the call: None, a raised exception, or the projected price with
\* the price before the overlay and the multiplier
calculate_future_price(target_year, target_month) ==
    LET current_price == btc.usd
    IN  IF btc = None
        THEN [kind |-> "none", why |-> "no_price"]
        ELSE IF target_month \notin 1 .. 12
        THEN [kind |-> "raise", value |-> "ValueError"]
        ELSE IF TargetInPast(target_year, target_month)
        THEN [kind |-> "none", why |-> "past"]
        ELSE LET projected_price ==
                     RefinedPrice(current_price, target_year, target_month)
                 volatility_factor ==
                     add_bitcoin_volatility(target_year, target_month, projected_price)
             IN  [kind |-> "value",
                  value |-> Overlay(projected_price, volatility_factor),
                  refined |-> projected_price,
                  factor |-> volatility_factor]

(***************************************************************************)
(* src/historical_prices.py: get_fallback_price                            *)
(***************************************************************************)
\* the months of entry i of the table, counted from year 0
hist_months(i) == HISTORICAL_PRICES[i][1] * 12 + HISTORICAL_PRICES[i][2]

\* the entries whose key is (year, month)
ExactMatch(year, month) ==
    {i \in DOMAIN HISTORICAL_PRICES :
        HISTORICAL_PRICES[i][1] = year /\ HISTORICAL_PRICES[i][2] = month}

\* variant of the loop: a later entry at the same distance replaces the closest
RECURSIVE ClosestLatest(_, _, _)
ClosestLatest(target_months, i, closest) ==
    IF i > Len(HISTORICAL_PRICES) THEN closest
    ELSE LET diff == Abs(hist_months(i) - target_months)
         IN  IF closest = 0 \/ diff <= Abs(hist_months(closest) - target_months)
             THEN ClosestLatest(target_months, i + 1, i)
             ELSE ClosestLatest(target_months, i + 1, closest)

\* the loop of lines 129-135 from entry i on: closest is the entry found so far
\* (0: none, min_month_diff is infinite)
RECURSIVE Closest(_, _, _)
Closest(target_months, i, closest) ==
    IF i > Len(HISTORICAL_PRICES) THEN closest
    ELSE LET diff == Abs(hist_months(i) - target_months)
         IN  IF closest = 0 \/ diff < Abs(hist_months(closest) - target_months)
             THEN Closest(target_months, i + 1, i)
             ELSE Closest(target_months, i + 1, closest)

\* variant: on a tie the later entry is taken
get_fallback_price_latest(year, month) ==
    LET target_months == year * 12 + month
        closest_key == ClosestLatest(target_months, 1, 0)
    IN  IF ExactMatch(year, month) # {}
        THEN Cents(HISTORICAL_PRICES[CHOOSE i \in ExactMatch(year, month) : TRUE][3])
        ELSE IF closest_key # 0 /\ Abs(hist_months(closest_key) - target_months) <= 3
        THEN Cents(HISTORICAL_PRICES[closest_key][3])
        ELSE None

get_fallback_price(year, month) ==
    LET target_months == year * 12 + month
        closest_key == Closest(target_months, 1, 0)
    IN  IF ExactMatch(year, month) # {}
        THEN Cents(HISTORICAL_PRICES[CHOOSE i \in ExactMatch(year, month) : TRUE][3])
        ELSE IF closest_key # 0 /\ Abs(hist_months(closest_key) - target_months) <= 3
        THEN Cents(HISTORICAL_PRICES[closest_key][3])
        ELSE None

(***************************************************************************)
(* src/api_handler.py                                                      *)
(***************************************************************************)
\* get_current_btc_price(): the cached or fetched price, or None
get_current_btc_price == btc

\* now is at least one day after the first day of the month: certain in a later
\* month, open within the month itself (recent), never at its first instant
DaysDiffAtLeastOne(year, month, recent) ==
    LET target == year * 12 + month
        current == now.year * 12 + now.month
    IN  target < current \/ (target = current /\ now.offset > 0 /\ ~recent)

\* get_historical_btc_price(year, month); recent: now is less than a day after
\* the first instant of the month
get_historical_btc_price(year, month, recent) ==
    IF ~DaysDiffAtLeastOne(year, month, recent)
    THEN [price |-> get_current_btc_price, via |-> "current"]
    ELSE IF api.kind \in {"timeout", "error", "unparsable"}
    THEN [price |-> get_fallback_price(year, month), via |-> "fallback"]
    ELSE IF api.kind = "empty"
    THEN [price |-> None, via |-> "warning"]
    ELSE [price |-> IF api.closest # 0 THEN Usd(api.closest) ELSE None,
          via |-> "api"]

\* target_date <= current_date: the first instant of the month is not after now
AtOrBeforeNow(year, month) ==
    (year * 12 + month) * 2 <= (now.year * 12 + now.month) * 2 + now.offset

\* variant: a caller's is_future = True forces the projection
get_price_for_date_flagged(year, month, is_future) ==
    IF AtOrBeforeNow(year, month) /\ ~is_future
    THEN IF year = now.year /\ month = now.month
         THEN [price |-> get_current_btc_price, is_projected |-> FALSE,
               via |-> "current"]
         ELSE [price |-> get_historical_btc_price(year, month, FALSE).price,
               is_projected |-> FALSE,
               via |-> get_historical_btc_price(year, month, FALSE).via]
    ELSE [price |-> calculate_future_price(year, month), is_projected |-> TRUE,
          via |-> "forecast"]

\* get_price_for_date(year, month, is_future): the pair (price, is_projected) and
\* the function that delivered the price
get_price_for_date(year, month, is_future) ==
    IF AtOrBeforeNow(year, month)
    THEN IF year = now.year /\ month = now.month
         THEN [price |-> get_current_btc_price, is_projected |-> FALSE,
               via |-> "current"]
         ELSE [price |-> get_historical_btc_price(year, month, FALSE).price,
               is_projected |-> FALSE,
               via |-> get_historical_btc_price(year, month, FALSE).via]
    ELSE [price |-> calculate_future_price(year, month), is_projected |-> TRUE,
          via |-> "forecast"]

(***************************************************************************)
(* src/visualization.py: prepare_chart_data                                *)
(***************************************************************************)
\* datetime objects of first days of months compare as their months do
MonthIndex(d) == d[1] * 12 + d[2]

\* variant: more than MAX_MONTHLY_POINTS months are needed for monthly sampling
step_months_strict(total_months) ==
    IF total_months < MAX_MONTHLY_POINTS THEN 1 ELSE QUARTERLY_SAMPLE_MONTHS

\* 1 if total_months <= MAX_MONTHLY_POINTS else QUARTERLY_SAMPLE_MONTHS
step_months(total_months) ==
    IF total_months <= MAX_MONTHLY_POINTS THEN 1 ELSE QUARTERLY_SAMPLE_MONTHS

\* the loop of lines 82-84: while month > 12: month -= 12; year += 1
RECURSIVE Overflow(_, _)
Overflow(year, month) ==
    IF month > 12 THEN Overflow(year + 1, month - 12) ELSE <<year, month>>

\* variant: the month wraps around without the year moving on
NextSampleWrapped(year, month, step) == <<year, ((month + step - 1) % 12) + 1>>

\* the next sampling point: lines 78-86
NextSample(year, month, step) == Overflow(year, month + step)

\* price if price else 0
PriceOrZero(price) ==
    IF price.kind \in {"None", "none"} THEN Usd(0)
    ELSE IF price.kind = "value" THEN Usd(price.value)
    ELSE price

\* (price * btc_amount) if price else 0
ValueOrZero(price, btc_amount) ==
    IF price.kind \in {"None", "none"} THEN Usd(0)
    ELSE IF price.kind = "value" THEN Usd(price.value * btc_amount)
    ELSE IF "cents" \in DOMAIN price THEN Cents(price.cents * btc_amount)
    ELSE Usd(price.usd * btc_amount)

\* lines 48-63: the locals before the loop
ChartStart(r, btc_amount) ==
    /\ chart = NoChart
    /\ ret = NoCall
    /\ chart' = [pc |-> "loop",
                 start |-> <<r[1], r[2]>>,
                 end |-> <<r[3], r[4]>>,
                 btc_amount |-> btc_amount,
                 total_months |-> (r[3] - r[1]) * 12 + (r[4] - r[2]) + 1,
                 step |-> step_months((r[3] - r[1]) * 12 + (r[4] - r[2]) + 1),
                 current_date |-> <<r[1], r[2]>>,
                 dates |-> <<>>, prices |-> <<>>, portfolio_values |-> <<>>,
                 points |-> <<>>,
                 has_projections |-> FALSE]
    /\ UNCHANGED <<now, btc, anchors, ret, memo, calls, info, api>>

\* one iteration of the loop, lines 65-86; points keeps what get_price_for_date
\* returned
ChartStep ==
    /\ chart.pc = "loop"
    /\ MonthIndex(chart.current_date) <= MonthIndex(chart.end)
    /\ LET point == get_price_for_date(chart.current_date[1], chart.current_date[2],
                                       FALSE)
       IN  chart' =
             [chart EXCEPT
                !.has_projections = IF point.is_projected THEN TRUE ELSE @,
                !.dates = Append(@, chart.current_date),
                !.prices = Append(@, PriceOrZero(point.price)),
                !.portfolio_values =
                    Append(@, ValueOrZero(point.price, chart.btc_amount)),
                !.points = Append(@, [price |-> point.price,
                                      is_projected |-> point.is_projected]),
                !.current_date = NextSample(chart.current_date[1],
                                            chart.current_date[2], chart.step)]
    /\ UNCHANGED <<now, btc, anchors, ret, memo, calls, info, api>>

\* the loop condition fails: line 88 returns the lists
ChartReturn ==
    /\ chart.pc = "loop"
    /\ MonthIndex(chart.current_date) > MonthIndex(chart.end)
    /\ chart' = [chart EXCEPT !.pc = "done"]
    /\ UNCHANGED <<now, btc, anchors, ret, memo, calls, info, api>>

\* the caller has drawn the chart
ChartDrawn ==
    /\ chart.pc = "done"
    /\ chart' = NoChart
    /\ UNCHANGED <<now, btc, anchors, ret, memo, calls, info, api>>

(***************************************************************************)
(* Calls and the environment                                               *)
(***************************************************************************)
ClockIndex(c) == (c.year * 12 + c.month) * 2 + c.offset

\* a call of interpolate_price_between_anchors with what it read and returned
InterpCall(current_price, target_year) ==
    [op |-> "interpolate", price |-> current_price, target |-> target_year,
     year |-> now.year,
     out |-> interpolate_price_between_anchors(current_price, target_year)]

\* a call of add_bitcoin_volatility, with its crash_seed and its volatility_factor
\* before and after the crash and pump events
VolCall(target_year, target_month, base_price) ==
    [op |-> "volatility", year |-> target_year, month |-> target_month,
     base |-> base_price,
     seed |-> crash_seed(target_year, target_month),
     before |-> BaseFactor(target_year, target_month),
     after |-> EventFactor(target_year, target_month),
     out |-> add_bitcoin_volatility(target_year, target_month, base_price)]

\* a call of calculate_future_price
FutureCall(target_year, target_month) ==
    [op |-> "future", year |-> target_year, month |-> target_month,
     price |-> btc, at |-> now,
     out |-> calculate_future_price(target_year, target_month)]

\* time passes between two calls
Tick(c) ==
    /\ ret = NoCall
    /\ ClockIndex(c) > ClockIndex(now)
    /\ now' = c
    /\ UNCHANGED <<btc, anchors, ret, memo>>
    /\ UNCHANGED <<calls, info>>
    /\ UNCHANGED <<api, chart>>

\* get_current_btc_price() delivers a new price (the cache of api_handler.py expired)
FetchPrice(p) ==
    /\ ret = NoCall
    /\ Usd(p) # btc
    /\ btc' = Usd(p)
    /\ UNCHANGED <<now, anchors, ret, memo>>
    /\ UNCHANGED <<calls, info>>
    /\ UNCHANGED <<api, chart>>

\* the price API fails: get_current_btc_price() returns None
FetchFails ==
    /\ ret = NoCall
    /\ btc # None
    /\ btc' = None
    /\ UNCHANGED <<now, anchors, ret, memo>>
    /\ UNCHANGED <<calls, info>>
    /\ UNCHANGED <<api, chart>>

\* the caller is done with the result
Return ==
    /\ ret # NoCall
    /\ ret' = NoCall
    /\ UNCHANGED <<now, btc, anchors, memo>>
    /\ UNCHANGED <<calls, info>>
    /\ UNCHANGED <<api, chart>>

\* the caller keeps the result to compare it with a later call's
Remember ==
    /\ ret # NoCall
    /\ memo' = ret
    /\ ret' = NoCall
    /\ UNCHANGED <<now, btc, anchors>>
    /\ UNCHANGED <<calls, info>>
    /\ UNCHANGED <<api, chart>>

Forget ==
    /\ ret = NoCall
    /\ memo # NoCall
    /\ memo' = NoCall
    /\ UNCHANGED <<now, btc, anchors, ret>>
    /\ UNCHANGED <<calls, info>>
    /\ UNCHANGED <<api, chart>>

\* interpolate_price_between_anchors(p, t)
Project(p, t) ==
    /\ ret = NoCall
    /\ memo = NoCall
    /\ ret' = InterpCall(p, t)
    /\ UNCHANGED <<now, btc, anchors, memo>>
    /\ UNCHANGED <<calls, info>>
    /\ UNCHANGED <<api, chart>>

\* the same call again, as a chart or a later run repeats it
ProjectAgain ==
    /\ ret = NoCall
    /\ memo.op = "interpolate"
    /\ ret' = InterpCall(memo.price, memo.target)
    /\ UNCHANGED <<now, btc, anchors, memo>>
    /\ UNCHANGED <<calls, info>>
    /\ UNCHANGED <<api, chart>>

\* the call for the following year, as calculate_future_price makes it (line 232)
\* the remembered call again, in the same year, for another current price
ProjectAtPrice(p) ==
    /\ ret = NoCall
    /\ memo.op = "interpolate"
    /\ memo.year = now.year
    /\ p # memo.price
    /\ ret' = InterpCall(p, memo.target)
    /\ UNCHANGED <<now, btc, anchors, memo, calls, info, api, chart>>

ProjectNextYear ==
    /\ ret = NoCall
    /\ memo.op = "interpolate"
    /\ memo.target + 1 \in TargetYears
    /\ ret' = InterpCall(memo.price, memo.target + 1)
    /\ UNCHANGED <<now, btc, anchors, memo>>
    /\ UNCHANGED <<calls, info>>
    /\ UNCHANGED <<api, chart>>

\* add_bitcoin_volatility(y, m, b)
AddVolatility(y, m, b) ==
    /\ ret = NoCall
    /\ memo = NoCall
    /\ ret' = VolCall(y, m, b)
    /\ UNCHANGED <<now, btc, anchors, memo>>
    /\ UNCHANGED <<calls, info>>
    /\ UNCHANGED <<api, chart>>

\* the same year and month again, with another base price
AddVolatilityAgain(b) ==
    /\ ret = NoCall
    /\ memo.op = "volatility"
    /\ ret' = VolCall(memo.year, memo.month, b)
    /\ UNCHANGED <<now, btc, anchors, memo>>
    /\ UNCHANGED <<calls, info>>
    /\ UNCHANGED <<api, chart>>

\* calculate_future_price(y, m)
CalculateFuturePrice(y, m) ==
    /\ ret = NoCall
    /\ ret' = FutureCall(y, m)
    /\ UNCHANGED <<now, btc, anchors, memo>>
    /\ UNCHANGED <<calls, info>>
    /\ UNCHANGED <<api, chart>>

(***************************************************************************)
(* Concurrent callers and get_projection_info                              *)
(***************************************************************************)
\* variant: 'anchor_points' is the configured dictionary itself
anchor_points_shared(table) == [held |-> TRUE, alias |-> TRUE, table |-> table]

\* 'anchor_points': FORECAST_ANCHORS.copy(), a new dictionary with the same items
anchor_points(table) == [held |-> TRUE, alias |-> FALSE, table |-> table]

\* the price a caller writes into the dictionary it was handed
OverwrittenPrice == 1000000

\* caller c enters interpolate_price_between_anchors(p, t) and reads the clock
Begin(c, p, t) ==
    /\ calls[c] = Idle
    /\ calls' = [calls EXCEPT ![c] = [pc |-> "running", price |-> p, target |-> t,
                                      year |-> now.year]]
    /\ UNCHANGED <<now, btc, anchors, ret, memo, info>>
    /\ UNCHANGED <<api, chart>>

\* caller c reads the anchor table, computes and returns
Finish(c) ==
    /\ calls[c].pc = "running"
    /\ calls' = [calls EXCEPT ![c] =
                    [pc |-> "done", price |-> calls[c].price,
                     target |-> calls[c].target, year |-> calls[c].year,
                     out |-> InterpolateAt(anchors, calls[c].year, calls[c].price,
                                           calls[c].target)]]
    /\ UNCHANGED <<now, btc, anchors, ret, memo, info>>
    /\ UNCHANGED <<api, chart>>

\* caller c has used the result
Collect(c) ==
    /\ calls[c].pc = "done"
    /\ calls' = [calls EXCEPT ![c] = Idle]
    /\ UNCHANGED <<now, btc, anchors, ret, memo, info>>
    /\ UNCHANGED <<api, chart>>

\* get_projection_info(current_price)['anchor_points']
GetProjectionInfo ==
    /\ info = NoInfo
    /\ api = Delivers
    /\ chart = NoChart
    /\ info' = anchor_points(anchors)
    /\ UNCHANGED <<now, btc, anchors, ret, memo, calls>>
    /\ UNCHANGED <<api, chart>>

\* the caller overwrites the first anchor's price in the dictionary it was handed;
\* when that dictionary is the configured one, the configuration changes with it
MutateInfo ==
    /\ info # NoInfo
    /\ LET y == anchor_years(info.table)[1]
       IN  /\ info.table[y] # OverwrittenPrice
           /\ info' = [info EXCEPT !.table[y] = OverwrittenPrice]
           /\ anchors' = IF info.alias THEN [anchors EXCEPT ![y] = OverwrittenPrice]
                                       ELSE anchors
    /\ UNCHANGED <<now, btc, ret, memo, calls>>
    /\ UNCHANGED <<api, chart>>

\* the caller drops the dictionary
DropInfo ==
    /\ info # NoInfo
    /\ info' = NoInfo
    /\ UNCHANGED <<now, btc, anchors, ret, memo, calls>>
    /\ UNCHANGED <<api, chart>>

\* a call of get_fallback_price
FallbackCall(year, month) ==
    [op |-> "fallback", year |-> year, month |-> month,
     out |-> get_fallback_price(year, month)]

\* get_fallback_price(y, m)
GetFallbackPrice(y, m) ==
    /\ ret = NoCall
    /\ ret' = FallbackCall(y, m)
    /\ UNCHANGED <<now, btc, anchors, memo, calls, info, api, chart>>

\* a call of get_historical_btc_price
HistoricalCall(year, month, recent) ==
    [op |-> "historical", year |-> year, month |-> month, recent |-> recent,
     answer |-> api,
     requested |-> DaysDiffAtLeastOne(year, month, recent),
     out |-> get_historical_btc_price(year, month, recent)]

\* a call of get_price_for_date
DateCall(year, month, is_future) ==
    [op |-> "price_for_date", year |-> year, month |-> month,
     is_future |-> is_future, at |-> now,
     out |-> get_price_for_date(year, month, is_future)]

\* the price API answers the next request differently
ApiChanges(a) ==
    /\ ret = NoCall
    /\ chart = NoChart
    /\ a # api
    /\ api' = a
    /\ UNCHANGED <<now, btc, anchors, ret, memo, calls, info, chart>>

\* get_historical_btc_price(y, m)
GetHistoricalPrice(y, m, recent) ==
    /\ ret = NoCall
    /\ ret' = HistoricalCall(y, m, recent)
    /\ UNCHANGED <<now, btc, anchors, memo, calls, info, api, chart>>

\* get_price_for_date(y, m, f)
GetPriceForDate(y, m, f) ==
    /\ ret = NoCall
    /\ ret' = DateCall(y, m, f)
    /\ UNCHANGED <<now, btc, anchors, memo, calls, info, api, chart>>

(***************************************************************************)
(* Specifications                                                          *)
(***************************************************************************)
\* the dashboard's projection: calculate_future_price under a running clock and
\* a changing market price
Init ==
    /\ now \in Clock
    /\ btc \in {Usd(p) : p \in CurrentPrices} \cup {None}
    /\ anchors = FORECAST_ANCHORS
    /\ ret = NoCall
    /\ memo = NoCall
    /\ calls = [c \in Callers |-> Idle]
    /\ info = NoInfo
    /\ api = Delivers
    /\ chart = NoChart

Next ==
    \/ \E c \in Clock : Tick(c)
    \/ \E p \in CurrentPrices : FetchPrice(p)
    \/ FetchFails
    \/ \E y \in TargetYears, m \in TargetMonths : CalculateFuturePrice(y, m)
    \/ Return

Spec == Init /\ [][Next]_vars

\* interpolate_price_between_anchors applied to every price and target year, under
\* every anchor table
InitInterp ==
    /\ now \in Clock
    /\ btc = None
    /\ anchors \in AnchorConfigs
    /\ ret = NoCall
    /\ memo = NoCall
    /\ calls = [c \in Callers |-> Idle]
    /\ info = NoInfo
    /\ api = Delivers
    /\ chart = NoChart

NextInterp ==
    \/ \E c \in Clock : Tick(c)
    \/ \E p \in CurrentPrices, t \in TargetYears : Project(p, t)
    \/ ProjectAgain
    \/ \E p \in CurrentPrices : ProjectAtPrice(p)
    \/ ProjectNextYear
    \/ Remember
    \/ Forget
    \/ Return

SpecInterp == InitInterp /\ [][NextInterp]_vars

\* add_bitcoin_volatility applied to every year, month and base price
InitVol ==
    /\ now \in Clock
    /\ btc = None
    /\ anchors = FORECAST_ANCHORS
    /\ ret = NoCall
    /\ memo = NoCall
    /\ calls = [c \in Callers |-> Idle]
    /\ info = NoInfo
    /\ api = Delivers
    /\ chart = NoChart

NextVol ==
    \/ \E c \in Clock : Tick(c)
    \/ \E y \in TargetYears, m \in 1 .. 12, b \in BasePrices : AddVolatility(y, m, b)
    \/ \E b \in BasePrices : AddVolatilityAgain(b)
    \/ Remember
    \/ Forget
    \/ Return

SpecVol == InitVol /\ [][NextVol]_vars

\* interpolate_price_between_anchors under a configuration or with a current price
\* that the projection has no use for
InitInvalid ==
    /\ now \in Clock
    /\ btc = None
    /\ anchors \in DegenerateConfigs \cup {FORECAST_ANCHORS}
    /\ ret = NoCall
    /\ memo = NoCall
    /\ calls = [c \in Callers |-> Idle]
    /\ info = NoInfo
    /\ api = Delivers
    /\ chart = NoChart

NextInvalid ==
    \/ \E c \in Clock : Tick(c)
    \/ \E p \in InvalidPrices \cup {60000}, t \in TargetYears : Project(p, t)
    \/ Return

SpecInvalid == InitInvalid /\ [][NextInvalid]_vars

\* several callers inside interpolate_price_between_anchors at once, beside a
\* caller of get_projection_info that changes the dictionary it received
InitConcurrent ==
    /\ now \in Clock
    /\ btc = None
    /\ anchors = FORECAST_ANCHORS
    /\ ret = NoCall
    /\ memo = NoCall
    /\ calls = [c \in Callers |-> Idle]
    /\ info = NoInfo
    /\ api = Delivers
    /\ chart = NoChart

NextConcurrent ==
    \/ \E c \in Clock : Tick(c)
    \/ \E c \in Callers, t \in ConcurrentTargets : Begin(c, 60000, t)
    \/ \E c \in Callers : Finish(c)
    \/ \E c \in Callers : Collect(c)
    \/ GetProjectionInfo
    \/ MutateInfo
    \/ DropInfo

SpecConcurrent == InitConcurrent /\ [][NextConcurrent]_vars

\* get_fallback_price applied to every month of the years around the table
InitFallback ==
    /\ now \in Clock
    /\ btc = None
    /\ anchors = FORECAST_ANCHORS
    /\ ret = NoCall
    /\ memo = NoCall
    /\ calls = [c \in Callers |-> Idle]
    /\ info = NoInfo
    /\ api = Delivers
    /\ chart = NoChart

NextFallback ==
    \/ \E y \in HistoryYears, m \in 1 .. 12 : GetFallbackPrice(y, m)
    \/ Return

SpecFallback == InitFallback /\ [][NextFallback]_vars

\* get_historical_btc_price and get_price_for_date under every answer of the
\* price API, with and without a current price
InitPrices ==
    /\ now \in EarlyClock
    /\ btc \in {Usd(60000), None}
    /\ anchors = FORECAST_ANCHORS
    /\ ret = NoCall
    /\ memo = NoCall
    /\ calls = [c \in Callers |-> Idle]
    /\ info = NoInfo
    /\ api \in ApiAnswers
    /\ chart = NoChart

NextPrices ==
    \/ \E a \in ApiAnswers : ApiChanges(a)
    \/ \E y \in DateYears, m \in 1 .. 12, r \in BOOLEAN : GetHistoricalPrice(y, m, r)
    \/ \E y \in DateYears, m \in 1 .. 12, f \in BOOLEAN : GetPriceForDate(y, m, f)
    \/ Return

SpecPrices == InitPrices /\ [][NextPrices]_vars

(***************************************************************************)
(* src/app.py: calculate_and_display_results                               *)
(***************************************************************************)
\* the choices of the comparison radio button
ComparisonTypes == {"Today's Value", "Future Projection"}

\* the purchase years and the future years chosen in the form
PurchaseYears == {2011, 2026} \cup (FirstNowYear .. (FirstNowYear + 1))

FutureYears == (FirstNowYear .. (FirstNowYear + 1)) \cup {2035}

FormMonths == {1, 6, 12}

\* price is None
IsNone(price) == price.kind \in {"None", "none"}

\* variant: the comparison error does not return
ShownWithoutReturn(purchase_price, comparison_price) ==
    IF purchase_price.kind = "raise" THEN <<"exception">>
    ELSE IF IsNone(purchase_price) THEN <<"error">>
    ELSE IF comparison_price.kind = "raise" THEN <<"exception">>
    ELSE IF IsNone(comparison_price) THEN <<"error", "results", "chart">>
    ELSE <<"results", "chart">>

\* what the handler shows, in order: show_error and return at lines 93-99, 117-119
\* and 131-133, else render_results_section (169) and then the chart (172-185)
Shown(purchase_price, comparison_price) ==
    IF purchase_price.kind = "raise" THEN <<"exception">>
    ELSE IF IsNone(purchase_price) THEN <<"error">>
    ELSE IF comparison_price.kind = "raise" THEN <<"exception">>
    ELSE IF IsNone(comparison_price) THEN <<"error">>
    ELSE <<"results", "chart">>

calculate_and_display_results(purchase_year, purchase_month, comparison_type, future_year, future_month) ==
    LET purchase_price == get_price_for_date(purchase_year, purchase_month, FALSE).price
        comparison_price ==
            IF comparison_type = "Today's Value"
            THEN get_current_btc_price
            ELSE calculate_future_price(future_year, future_month)
    IN  [op |-> "calculate_and_display_results",
         purchase_year |-> purchase_year, purchase_month |-> purchase_month,
         comparison_type |-> comparison_type,
         future_year |-> future_year, future_month |-> future_month,
         shown |-> Shown(purchase_price, comparison_price)]

\* the Calculate Value button
CalculateValue(py, pm, t, fy, fm) ==
    /\ ret = NoCall
    /\ chart = NoChart
    /\ ret' = calculate_and_display_results(py, pm, t, fy, fm)
    /\ UNCHANGED <<now, btc, anchors, memo, calls, info, api, chart>>

InitApp ==
    /\ now \in EarlyClock
    /\ btc \in {Usd(60000), None}
    /\ anchors = FORECAST_ANCHORS
    /\ ret = NoCall
    /\ memo = NoCall
    /\ calls = [c \in Callers |-> Idle]
    /\ info = NoInfo
    /\ api \in ApiAnswers
    /\ chart = NoChart

NextApp ==
    \/ \E py \in PurchaseYears, pm \in FormMonths, t \in ComparisonTypes,
          fy \in FutureYears, fm \in FormMonths : CalculateValue(py, pm, t, fy, fm)
    \/ Return

SpecApp == InitApp /\ [][NextApp]_vars

\* prepare_chart_data for every range, under every answer of the price API, with
\* and without a current price
InitChart ==
    /\ now \in MidYearClock
    /\ btc \in {Usd(60000), None}
    /\ anchors = FORECAST_ANCHORS
    /\ ret = NoCall
    /\ memo = NoCall
    /\ calls = [c \in Callers |-> Idle]
    /\ info = NoInfo
    /\ api \in ApiAnswers
    /\ chart = NoChart

NextChart ==
    \/ \E r \in ChartRanges : ChartStart(r, 2)
    \/ ChartStep
    \/ ChartReturn
    \/ ChartDrawn

SpecChart == InitChart /\ [][NextChart]_vars

\* the same, with the loop running on: an iteration or the return that is
\* possible is eventually taken
\* ChartStep is enabled exactly while the loop condition of line 65 holds, and
\* every ChartStep lengthens the lists, so this is WF_vars(ChartStep) with its
\* enabling condition written out
ChartStepEnabled ==
    /\ chart.pc = "loop"
    /\ MonthIndex(chart.current_date) <= MonthIndex(chart.end)

ChartStepFair == []<>(~ChartStepEnabled) \/ []<><<ChartStep>>_vars

SpecChartLive == SpecChart /\ ChartStepFair /\ WF_vars(ChartReturn)

(***************************************************************************)
(* Properties                                                              *)
(***************************************************************************)
\* x equals y within the tolerance of the fixed-point arithmetic (0.5 %)
Close(x, y) == Abs(x - y) <= y \div 200

IsInterp(c) == c.op = "interpolate" /\ c.out.kind = "value"

IsFuture(c) == c.op = "future"

\* C1: every value interpolate_price_between_anchors returns is at most the
\* safety cap, in every branch.
C1_InterpolateWithinCap ==
    IsInterp(ret) => ret.out.value <= MAX_THEORETICAL_BTC_PRICE

\* C2: the price calculate_future_price delivers is at most the safety cap.
C2_DeliveredWithinCap ==
    (IsFuture(ret) /\ ret.out.kind = "value")
        => ret.out.value <= MAX_THEORETICAL_BTC_PRICE

\* C3: the price calculate_future_price delivers never exceeds twice the safety
\* cap (the overlay of at most x2.0 is applied to a capped price).
C3_DeliveredWithinTwiceCap ==
    (IsFuture(ret) /\ ret.out.kind = "value")
        => ret.out.value <= 2 * MAX_THEORETICAL_BTC_PRICE

C5_AnchorYearGivesAnchorPrice ==
    (ret.op = "interpolate" /\ ret.target \in DOMAIN anchors)
        => /\ ret.out.kind = "value"
           /\ Close(ret.out.value, anchors[ret.target])
           /\ ret.out.value <= MAX_THEORETICAL_BTC_PRICE

\* C5 amended: for every anchor year after the current year the anchor's price is
\* returned (within the arithmetic's tolerance), and it is at most the cap.
C5_FutureAnchorYearGivesAnchorPrice ==
    (ret.op = "interpolate" /\ ret.target \in DOMAIN anchors /\ ret.target > ret.year)
        => /\ ret.out.kind = "value"
           /\ Close(ret.out.value, anchors[ret.target])
           /\ ret.out.value <= MAX_THEORETICAL_BTC_PRICE

C5_Witness ==
    /\ ret.op = "interpolate"
    /\ ret.target \in DOMAIN anchors
    /\ ret.target > ret.year + 1
    /\ ret.out.branch = "anchor"
    /\ ret.price > MAX_THEORETICAL_BTC_PRICE
    /\ Close(ret.out.value, anchors[ret.target])

\* the anchor prices increase with the anchor year
Increasing(table) ==
    \A y1, y2 \in DOMAIN table : y1 < y2 => table[y1] < table[y2]

\* memo and ret are the values for two consecutive target years within the anchor
\* range, for the same current price and current year
ConsecutiveInRange ==
    /\ IsInterp(memo)
    /\ IsInterp(ret)
    /\ memo.price = ret.price
    /\ memo.year = ret.year
    /\ ret.target = memo.target + 1
    /\ \E lo \in DOMAIN anchors : lo <= memo.target
    /\ \E hi \in DOMAIN anchors : ret.target <= hi

\* C6 as stated: with increasing anchor prices the value does not decrease from one
\* target year to the next, from the smallest to the largest anchor year.
C6_NonDecreasingInAnchorRange ==
    (Increasing(anchors) /\ ConsecutiveInRange)
        => memo.out.value <= ret.out.value

\* C6 amended: the same for the target years after the current year.
C6_NonDecreasingAfterCurrentYear ==
    (Increasing(anchors) /\ ConsecutiveInRange /\ memo.target > memo.year)
        => memo.out.value <= ret.out.value

C6_Witness ==
    /\ Increasing(anchors)
    /\ ConsecutiveInRange
    /\ memo.target > memo.year
    /\ memo.out.branch = "between"
    /\ ret.out.branch = "anchor"
    /\ memo.out.value < ret.out.value

\* C7: the multiplier add_bitcoin_volatility returns lies in [0.5, 2.0], crash
\* and rally months included.
C7_FactorWithinBounds ==
    ret.op = "volatility" => (500 <= ret.out /\ ret.out <= 2000)

C7_Witness ==
    /\ ret.op = "volatility"
    /\ crash_seed(ret.year, ret.month) > 96
    /\ EventFactor(ret.year, ret.month) > 2000
    /\ ret.out = 2000

\* C8: two calls of add_bitcoin_volatility for the same year and month return the
\* same multiplier, whatever base price each is given and whatever happened
\* between them.
C8_SameMonthSameFactor ==
    (/\ memo.op = "volatility"
     /\ ret.op = "volatility"
     /\ memo.year = ret.year
     /\ memo.month = ret.month)
        => memo.out = ret.out

C8_Witness ==
    /\ memo.op = "volatility"
    /\ ret.op = "volatility"
    /\ memo.year = ret.year
    /\ memo.month = ret.month
    /\ memo.base # ret.base
    /\ memo.out = ret.out

\* memo and ret are two calls of interpolate_price_between_anchors with the same
\* explicit arguments
SameArguments ==
    /\ memo.op = "interpolate"
    /\ ret.op = "interpolate"
    /\ memo.price = ret.price
    /\ memo.target = ret.target

\* C9 as stated: two calls with the same current price and target year return the
\* same result, whenever each is made.
C9_SameArgumentsSameResult ==
    SameArguments => memo.out = ret.out

\* C9 amended: two calls with the same current price and target year made in the
\* same calendar year return the same result.
C9_SameArgumentsSameYearSameResult ==
    (SameArguments /\ memo.year = ret.year) => memo.out = ret.out

C9_Witness ==
    /\ SameArguments
    /\ memo.year = ret.year
    /\ ret.target > ret.year
    /\ now.month = 12
    /\ memo.out = ret.out

\* the first instant of the month is before the instant at
PastAt(at, year, month) == (year * 12 + month) * 2 < ClockIndex(at)

\* C10 as stated: calculate_future_price returns a positive price or reports a
\* failure; it never returns a bare None.
C10_NeverBareNone ==
    IsFuture(ret)
        => /\ ret.out.kind \in {"value", "raise"}
           /\ ret.out.kind = "value" => ret.out.value > 0

\* C10 amended: calculate_future_price returns a positive price, raises for a
\* month outside 1..12, or returns None; it returns None only when the current
\* price is unavailable or the target month began before now.
C10_NoneOnlyWithoutPriceOrForPast ==
    IsFuture(ret)
        => /\ ret.out.kind \in {"value", "raise", "none"}
           /\ ret.out.kind = "value" => ret.out.value > 0
           /\ ret.out.kind = "raise" => (ret.price # None /\ ret.month \notin 1 .. 12)
           /\ ret.out.kind = "none"
                => (ret.price = None \/ PastAt(ret.at, ret.year, ret.month))

C10_Witness ==
    /\ IsFuture(ret)
    /\ ret.out.kind = "none"
    /\ ret.price # None
    /\ ret.year = ret.at.year
    /\ PastAt(ret.at, ret.year, ret.month)

\* the anchor table has fewer than two anchors
Degenerate(table) == Cardinality(DOMAIN table) < 2

\* C11: with fewer than two anchors every call fails with a configuration error;
\* none returns a price and none fails in an anchor lookup.
C11_DegenerateTableFailsFast ==
    (ret.op = "interpolate" /\ Degenerate(anchors))
        => (ret.out.kind = "raise" /\ ret.out.value = "ConfigurationError")

\* C12: with a current price that is not positive every call reports an error;
\* none returns a price or a nan.
C12_InvalidPriceReported ==
    (ret.op = "interpolate" /\ ret.price <= 0) => ret.out.kind = "raise"

\* the result was computed by a division
Divides(c) ==
    /\ IsInterp(c)
    /\ c.out.branch \in {"anchor", "before_first", "after_last", "between"}

\* C13: with at least two anchors of distinct years the divisor of the branch
\* taken (years to the target, years to the first anchor, years between the last
\* two anchors, years between the bracketing anchors) is strictly positive.
C13_DivisorsPositive ==
    (ret.op = "interpolate" /\ ~Degenerate(anchors))
        => /\ ret.out.kind = "value"
           /\ ret.target > ret.year => Divides(ret)
           /\ Divides(ret) => ret.out.divisor > 0

C13_Witness ==
    /\ Divides(ret)
    /\ ~Degenerate(anchors)
    /\ ret.out.branch = "anchor"
    /\ ret.target = ret.year + 1
    /\ ret.out.divisor = 1

\* what the call of caller c returns when it runs alone in the year it started
Alone(c) ==
    InterpolateAt(FORECAST_ANCHORS, calls[c].year, calls[c].price, calls[c].target)

\* C14: whatever the interleaving of the callers, the anchor table stays as
\* configured (also after a caller changed the dictionary get_projection_info
\* gave it) and every call returns what it returns when run alone.
C14_ConcurrentCallsUndisturbed ==
    /\ anchors = FORECAST_ANCHORS
    /\ \A c \in Callers : calls[c].pc = "done" => calls[c].out = Alone(c)

C14_Witness ==
    /\ info # NoInfo
    /\ info.table # FORECAST_ANCHORS
    /\ \E c, d \in Callers :
          /\ calls[c].pc = "done"
          /\ calls[c].out.branch = "anchor"
          /\ calls[c].out = Alone(c)
          /\ calls[d].pc = "running"
          /\ calls[d].year < now.year

LastAnchor(table) == anchor_years(table)[Len(anchor_years(table))]

SecondLastAnchor(table) == anchor_years(table)[Len(anchor_years(table)) - 1]

\* the last anchor's price grown for the years from the last anchor to year t at
\* the rate of the last two anchors, then capped
GrownFromLast(table, t) ==
    LET rate == DivRound(Ln(table[LastAnchor(table)]) - Ln(table[SecondLastAnchor(table)]),
                         LastAnchor(table) - SecondLastAnchor(table))
        grown == Exp(Ln(table[LastAnchor(table)]) + rate * (t - LastAnchor(table)))
    IN  IF grown > MAX_THEORETICAL_BTC_PRICE THEN MAX_THEORETICAL_BTC_PRICE ELSE grown

\* the call asks for a year beyond the largest anchor year
BeyondLast(c) ==
    /\ c.op = "interpolate"
    /\ ~Degenerate(anchors)
    /\ c.target > LastAnchor(anchors)

\* the result is the last anchor's price grown at the rate of the last two
\* anchors; for the shipped anchors and 2060 it is 14,400,000, below the cap
GrownResult(c) ==
    /\ c.out.kind = "value"
    /\ c.out.value = GrownFromLast(anchors, c.target)
    /\ (anchors = FORECAST_ANCHORS /\ c.target = 2060)
          => (Close(c.out.value, 14400000) /\ c.out.value < MAX_THEORETICAL_BTC_PRICE)

\* C15 as stated: for every target year beyond the largest anchor year the result
\* is the last anchor's price grown at the rate of the last two anchors for the
\* years beyond, capped; 2060 gives 14,400,000 with the shipped anchors.
C15_BeyondLastGrowsFromLast ==
    BeyondLast(ret) => GrownResult(ret)

\* C15 amended: the same for the target years after the current year.
C15_FutureBeyondLastGrowsFromLast ==
    (BeyondLast(ret) /\ ret.target > ret.year) => GrownResult(ret)

C15_Witness ==
    /\ BeyondLast(ret)
    /\ anchors = FORECAST_ANCHORS
    /\ ret.target = 2060
    /\ ret.price = 60000
    /\ ret.out.branch = "after_last"
    /\ Close(ret.out.value, 14400000)

\* the positions of the adjacent anchor years whose midpoint is the target year
MidwayAt(c) ==
    LET years == anchor_years(anchors)
    IN  {i \in 1 .. (Len(years) - 1) : years[i] + years[i + 1] = 2 * c.target}

\* the value is the geometric mean of the prices of the two anchors around the
\* target year: twice its logarithm is the sum of theirs, within 0.01; for the
\* anchors {2030: 800000, 2040: 2500000} and 2035 it is about 1,414,213.56
GeometricMean(c) ==
    /\ c.out.kind = "value"
    /\ \A i \in MidwayAt(c) :
          LET years == anchor_years(anchors)
          IN  Abs(2 * Ln(c.out.value)
                    - Ln(anchors[years[i]]) - Ln(anchors[years[i + 1]])) <= 100
    /\ (DOMAIN anchors = {2030, 2040} /\ c.target = 2035)
          => Close(c.out.value, 1414214)

\* C16 as stated: for every target year midway between two adjacent anchor years
\* the geometric mean of the two anchor prices is returned.
C16_MidwayGivesGeometricMean ==
    (ret.op = "interpolate" /\ MidwayAt(ret) # {}) => GeometricMean(ret)

\* C16 amended: the same for the target years after the current year.
C16_FutureMidwayGivesGeometricMean ==
    (ret.op = "interpolate" /\ MidwayAt(ret) # {} /\ ret.target > ret.year)
        => GeometricMean(ret)

C16_Witness ==
    /\ ret.op = "interpolate"
    /\ DOMAIN anchors = {2030, 2040}
    /\ ret.target = 2035
    /\ ret.target > ret.year
    /\ ret.out.branch = "between"
    /\ Close(ret.out.value, 1414214)

FirstAnchor(table) == anchor_years(table)[1]

\* the current price grown for the years from year y to year t at the rate that
\* leads from it to the first anchor's price, then capped
GrownToFirst(table, p, y, t) ==
    LET rate == DivRound(Ln(table[FirstAnchor(table)]) - Ln(p), FirstAnchor(table) - y)
        grown == Exp(Ln(p) + rate * (t - y))
    IN  IF grown > MAX_THEORETICAL_BTC_PRICE THEN MAX_THEORETICAL_BTC_PRICE ELSE grown

\* the call asks for a year after the current year and before the first anchor
BeforeFirstAnchor(c) ==
    /\ c.op = "interpolate"
    /\ ~Degenerate(anchors)
    /\ c.year < c.target
    /\ c.target < FirstAnchor(anchors)

\* C17: every target year after the current year and before the smallest anchor
\* year is answered by the before-first branch: the current price grown, at the
\* rate that reaches the first anchor, for the years to the target.
C17_BeforeFirstBranch ==
    BeforeFirstAnchor(ret)
        => /\ ret.out.kind = "value"
           /\ ret.out.branch = "before_first"
           /\ ret.out.divisor = FirstAnchor(anchors) - ret.year
           /\ Close(ret.out.value,
                    GrownToFirst(anchors, ret.price, ret.year, ret.target))

C17_Witness ==
    /\ BeforeFirstAnchor(ret)
    /\ ret.target = FirstAnchor(anchors) - 1
    /\ ret.year < ret.target - 1
    /\ ret.out.branch = "before_first"
    /\ ret.price < ret.out.value
    /\ ret.out.value < anchors[FirstAnchor(anchors)]

\* the call returned a price
Delivered(c) == IsFuture(c) /\ c.out.kind = "value"

\* the interpolated price of the January of the call's target year, and of the next
JanPrice(c) == InterpolateAt(anchors, c.at.year, c.price.usd, c.year).value

NextJanPrice(c) == InterpolateAt(anchors, c.at.year, c.price.usd, c.year + 1).value

\* C18: for target month 1 the price before the volatility overlay is exactly the
\* interpolated price of the target year; the following January plays no part.
C18_JanuaryIsInterpolatedPrice ==
    (Delivered(ret) /\ ret.month = 1) => ret.out.refined = JanPrice(ret)

C18_Witness ==
    /\ Delivered(ret)
    /\ ret.month = 1
    /\ ret.out.refined = JanPrice(ret)
    /\ NextJanPrice(ret) > JanPrice(ret)
    /\ ret.year > ret.at.year

\* x lies between a and b, within 0.2 % of the larger
Amid(x, a, b) ==
    /\ Min(a, b) - Max(a, b) \div 500 <= x
    /\ x <= Max(a, b) + Max(a, b) \div 500

C19_CrashSeedSelectsOneOutcome ==
    ret.op = "volatility"
        => /\ ret.seed \in 0 .. 99
           /\ ret.seed = (ret.year * 17 + ret.month * 7) % 100
           /\ ret.seed < 3 => Abs(10 * ret.after - 6 * ret.before) <= 5
           /\ ret.seed > 96 => Abs(10 * ret.after - 18 * ret.before) <= 5
           /\ ret.seed \in 3 .. 96 => ret.after = ret.before

C19_Witness ==
    /\ ret.op = "volatility"
    /\ ret.seed = 2
    /\ ret.after < ret.before
    /\ Abs(10 * ret.after - 6 * ret.before) <= 5

\* None is returned exactly when no current price was fetched or the first day of
\* the target month is before now, and then nothing was computed; otherwise a
\* price is returned
NoneExactlyWithoutPriceOrForPast(c) ==
    /\ c.out.kind = "none"
         <=> (c.price = None \/ PastAt(c.at, c.year, c.month))
    /\ c.out.kind = "none" => DOMAIN c.out = {"kind", "why"}
    /\ c.out.kind # "none" => (c.out.kind = "value" /\ c.out.value > 0)

\* C21 as stated: calculate_future_price returns None exactly when the current
\* price could not be fetched or the first day of the target month lies in the
\* past, without computing an interpolation or a volatility; in every other case
\* it returns a numeric price.
C21_NoneExactlyWithoutPriceOrForPast ==
    IsFuture(ret) => NoneExactlyWithoutPriceOrForPast(ret)

\* C21 amended: the same for the target months 1..12.
C21_ValidMonthNoneExactlyWithoutPriceOrForPast ==
    (IsFuture(ret) /\ ret.month \in 1 .. 12) => NoneExactlyWithoutPriceOrForPast(ret)

C21_Witness ==
    /\ IsFuture(ret)
    /\ ret.price # None
    /\ ret.year = ret.at.year
    /\ ret.month = ret.at.month
    /\ ret.at.offset = 0
    /\ ret.out.kind = "value"

\* the distance in months between entry i of the reference table and (year, month)
MonthDistance(i, year, month) ==
    Abs(12 * year + month - (12 * HISTORICAL_PRICES[i][1] + HISTORICAL_PRICES[i][2]))

\* the entries of the reference table at minimal distance from (year, month)
Nearest(year, month) ==
    {i \in DOMAIN HISTORICAL_PRICES :
        \A j \in DOMAIN HISTORICAL_PRICES :
            MonthDistance(i, year, month) <= MonthDistance(j, year, month)}

\* the chronologically earliest of them
EarliestNearest(year, month) ==
    CHOOSE i \in Nearest(year, month) :
        \A j \in Nearest(year, month) : hist_months(i) <= hist_months(j)

\* C24: get_fallback_price returns the table price of (year, month) when the key
\* exists; otherwise the price of the entry at minimal month distance, the
\* earlier one on a tie, provided the distance is at most 3; and None exactly
\* when no entry is within 3 months.
C24_FallbackNearestWithinThree ==
    ret.op = "fallback"
        => LET near == EarliestNearest(ret.year, ret.month)
               dist == MonthDistance(near, ret.year, ret.month)
           IN  /\ ret.out = None <=> dist > 3
               /\ dist <= 3 => ret.out = Cents(HISTORICAL_PRICES[near][3])
               /\ dist = 0 => /\ HISTORICAL_PRICES[near][1] = ret.year
                              /\ HISTORICAL_PRICES[near][2] = ret.month

C24_Witness ==
    /\ ret.op = "fallback"
    /\ Cardinality(Nearest(ret.year, ret.month)) = 2
    /\ MonthDistance(EarliestNearest(ret.year, ret.month), ret.year, ret.month) = 3
    /\ ret.out = Cents(HISTORICAL_PRICES[EarliestNearest(ret.year, ret.month)][3])

\* C23: whenever the price API does not deliver price points for a past month
\* (timeout, network or HTTP error, unparsable or empty response),
\* get_historical_btc_price returns get_fallback_price(year, month).
C23_FallbackWheneverApiFails ==
    (ret.op = "historical" /\ ret.requested /\ ret.answer.kind # "prices")
        => ret.out.price = get_fallback_price(ret.year, ret.month)

\* the first day of the call's month is at or before the instant of the call
NotAfter(c) == (c.year * 12 + c.month) * 2 <= ClockIndex(c.at)

\* the call's month is the month of the instant of the call
CurrentMonth(c) == c.year = c.at.year /\ c.month = c.at.month

\* C22: get_price_for_date routes by date: for a month that began at or before
\* now it returns a fetched price with is_projected = False, the live price
\* exactly for the current month and the historical price otherwise; for a later
\* month it returns calculate_future_price's result with is_projected = True; the
\* argument is_future changes nothing.
C22_RoutesByDate ==
    ret.op = "price_for_date"
        => /\ NotAfter(ret)
                => /\ ret.out.is_projected = FALSE
                   /\ ret.out.via = "current" <=> CurrentMonth(ret)
                   /\ CurrentMonth(ret) => ret.out.price = btc
                   /\ ~CurrentMonth(ret)
                        => /\ ret.out.via \in {"api", "fallback", "warning"}
                           /\ ret.out.price
                                = get_historical_btc_price(ret.year, ret.month,
                                                           FALSE).price
           /\ ~NotAfter(ret)
                => /\ ret.out.is_projected = TRUE
                   /\ ret.out.via = "forecast"
                   /\ ret.out.price = calculate_future_price(ret.year, ret.month)
           /\ ret.out = get_price_for_date(ret.year, ret.month, ~ret.is_future)

C22_Witness ==
    /\ ret.op = "price_for_date"
    /\ ret.is_future
    /\ NotAfter(ret)
    /\ ~CurrentMonth(ret)
    /\ ret.out.is_projected = FALSE
    /\ ret.out.via = "fallback"
    /\ ret.out.price # None


(***************************************************************************)
(* prepare_chart_data                                                      *)
(***************************************************************************)
Running == chart.pc \in {"loop", "done"}

StartAfterEnd == MonthIndex(chart.start) > MonthIndex(chart.end)

\* C25: prepare_chart_data terminates: the month of the cursor is always in
\* 1..12, every iteration moves the cursor strictly forward and is only taken
\* while the cursor has not passed the end, the lists are returned once it has
\* (empty when the start is after the end), and every run reaches the return.
C25_ChartTerminates ==
    /\ [](chart.pc = "loop" => chart.current_date[2] \in 1 .. 12)
    /\ [][(chart.pc = "loop" /\ chart'.pc = "loop")
            => /\ MonthIndex(chart'.current_date) > MonthIndex(chart.current_date)
               /\ MonthIndex(chart.current_date) <= MonthIndex(chart.end)]_vars
    /\ [](chart.pc = "done"
            => /\ MonthIndex(chart.current_date) > MonthIndex(chart.end)
               /\ StartAfterEnd => chart.dates = <<>>)
    /\ (chart.pc = "loop") ~> (chart.pc = "done")

\* a quarterly chart over more than ten years has been returned
C25_Witness ==
    /\ chart.pc = "done"
    /\ chart.step = 3
    /\ Len(chart.dates) > 40
    /\ chart.current_date[1] > chart.end[1]

\* the number of sampling points of a range
Samples ==
    IF StartAfterEnd THEN 0
    ELSE ((MonthIndex(chart.end) - MonthIndex(chart.start)) \div chart.step) + 1

\* C26: prepare_chart_data samples every month of a range of at most 120 months
\* and every third month of a longer one; the dates start at the start month,
\* advance by exactly the step and lie within the range; the three lists have
\* equal lengths; a missing price is recorded as 0 in both value lists; and
\* has_projections holds exactly when a sampled point was a projection.
C26_SamplingInvariants ==
    Running =>
      /\ chart.step = IF chart.total_months <= 120 THEN 1 ELSE 3
      /\ Len(chart.prices) = Len(chart.dates)
      /\ Len(chart.portfolio_values) = Len(chart.dates)
      /\ chart.dates # <<>> => chart.dates[1] = chart.start
      /\ \A i \in 1 .. (Len(chart.dates) - 1) :
            MonthIndex(chart.dates[i + 1]) = MonthIndex(chart.dates[i]) + chart.step
      /\ \A i \in 1 .. Len(chart.dates) :
            /\ MonthIndex(chart.dates[i]) >= MonthIndex(chart.start)
            /\ MonthIndex(chart.dates[i]) <= MonthIndex(chart.end)
            /\ chart.points[i].price.kind \in {"None", "none"}
                 => /\ chart.prices[i] = Usd(0)
                    /\ chart.portfolio_values[i] = Usd(0)
      /\ chart.has_projections
            <=> \E i \in 1 .. Len(chart.dates) : chart.points[i].is_projected
      /\ chart.pc = "done" => Len(chart.dates) = Samples

\* a chart of exactly 120 months with a missing price and a projection
C26_Witness ==
    /\ chart.pc = "done"
    /\ chart.total_months = 120
    /\ Len(chart.dates) = 120
    /\ chart.has_projections
    /\ \E i \in 1 .. Len(chart.dates) :
          /\ chart.points[i].price.kind \in {"None", "none"}
          /\ ~chart.points[i].is_projected
    /\ \E i \in 1 .. Len(chart.dates) : chart.prices[i] # Usd(0)

(***************************************************************************)
(* calculate_and_display_results                                           *)
(***************************************************************************)
AppRun == ret # NoCall /\ ret.op = "calculate_and_display_results"

\* the purchase price of the run
PurchasePrice == get_price_for_date(ret.purchase_year, ret.purchase_month, FALSE).price

\* the comparison price of the run
ComparisonPrice ==
    IF ret.comparison_type = "Today's Value"
    THEN btc
    ELSE calculate_future_price(ret.future_year, ret.future_month)

TwoPositiveYears(table) ==
    /\ Cardinality(DOMAIN table) >= 2
    /\ \A y \in DOMAIN table : y > 0

\* the one case a later target year belongs to
CaseOf(table, target_year) ==
    IF target_year \in DOMAIN table THEN "anchor"
    ELSE IF \A y \in DOMAIN table : target_year < y THEN "before_first"
    ELSE IF \A y \in DOMAIN table : target_year > y THEN "after_last"
    ELSE "between"

\* C28: with at least two distinct positive anchor years, a call for a target
\* year after the current year is answered by the exact-anchor, before-first,
\* after-last or between-anchors branch its target year belongs to, never by the
\* final 'return current_price'.
C28_FallbackUnreachable ==
    (ret.op = "interpolate" /\ ret.target > ret.year /\ TwoPositiveYears(anchors))
        => /\ ret.out.kind = "value"
           /\ ret.out.branch # "fallback"
           /\ ret.out.branch = CaseOf(anchors, ret.target)

\* the year of a middle anchor, asked for before the first anchor year
C28_Witness ==
    /\ ret.op = "interpolate"
    /\ TwoPositiveYears(anchors)
    /\ ret.year < FirstAnchor(anchors)
    /\ ret.target \in DOMAIN anchors
    /\ ret.target > FirstAnchor(anchors)
    /\ ret.target < LastAnchor(anchors)
    /\ ret.out.branch = "anchor"

\* two calls in the same year for the same target year
SameYearAndTarget ==
    /\ memo.op = "interpolate"
    /\ ret.op = "interpolate"
    /\ memo.target = ret.target
    /\ memo.year = ret.year

C30_BoundsBindOnlyInEventMonths ==
    ret.op = "volatility"
        => /\ ret.seed \in 3 .. 96
                => /\ ret.before >= 740
                   /\ ret.before <= 1300
                   /\ ret.out = ret.before
           /\ ret.out # ret.after => ret.seed \notin 3 .. 96

\* an ordinary month with a multiplier above 1.2
C30_Witness ==
    /\ ret.op = "volatility"
    /\ ret.seed \in 3 .. 96
    /\ ret.before > 1200
    /\ ret.out = ret.before

====
